---------------------------- MODULE Spec2Model ----------------------------
(***************************************************************************)
(* A model of pagerank.py: the link graph, transition_model,                *)
(* sample_pagerank and iterate_pagerank.                                    *)
(*                                                                          *)
(* Numbers.  A Python float x is modelled as the integer x * Scale, every   *)
(* division rounded to the nearest unit (finite precision, as a float       *)
(* has).  Scale is a multiple of every divisor that transition_model uses   *)
(* within the bounds, so the transition probabilities are exact; the ranks  *)
(* of iterate_pagerank are rounded.  A damping factor is given in           *)
(* hundredths (0.85 is 85).                                                 *)
(*                                                                          *)
(* Pages are 1..N; the order of corpus.keys() is 1, 2, ..., N.  Every       *)
(* labelled graph is a corpus of the model, so every processing order of    *)
(* every graph shape occurs.                                                *)
(***************************************************************************)
EXTENDS Integers, FiniteSets, TLC

VARIABLES
    corpus,        \* the link graph: [page -> set of pages]
    damping,       \* damping_factor, in hundredths
    op,            \* the function called: "none", "transition", "sample", "iterate"
    pc,            \* "idle", "running", "done", "error"
    page,          \* transition_model's argument `page`
    distribution,  \* transition_model's result
    n,             \* sample_pagerank's argument `n`
    i,             \* sample_pagerank's loop counter
    chosen,        \* sample_pagerank's current page
    countDict,     \* sample_pagerank's visit counters
    probDict,      \* the ranks (iterate_pagerank) or estimates (sample_pagerank)
    flag,          \* iterate_pagerank's flag
    idx,           \* iterate_pagerank: position of the inner for loop in corpus.keys()
    passStart,     \* history: probDict as it was when the current pass began
    passes         \* history: passes completed, counted up to MaxPassCount

vars == <<corpus, damping, op, pc, page, distribution, n, i, chosen,
          countDict, probDict, flag, idx, passStart, passes>>

---------------------------------------------------------------------------
(* Bounds *)

MaxPages == 3

MaxSamples == 3

MaxPassCount == 2

---------------------------------------------------------------------------
(* Program constants *)

DAMPING == 85

Dampings == {DAMPING, 50}

\* One unit of a float is 1/Scale.
Scale == 12 * 100 * 1000

\* minChange = 0.001
minChange == Scale \div 1000

\* {}: a dict before its first entry
EmptyDict == << >>

---------------------------------------------------------------------------
(* Arithmetic *)

Abs(x) == IF x < 0 THEN -x ELSE x

\* a / b, rounded to the nearest unit (a >= 0, b > 0)
Div(a, b) == (2 * a + b) \div (2 * b)

\* damping_factor * x
TimesDamping(d, x) == Div(d * x, 100)

\* 1 - damping_factor
OneMinusDamping(d) == Div((100 - d) * Scale, 100)

RECURSIVE SumOver(_, _)
SumOver(f, S) ==
    IF S = {} THEN 0
    ELSE LET x == CHOOSE y \in S : TRUE
         IN  f[x] + SumOver(f, S \ {x})

Total(f) == SumOver(f, DOMAIN f)

---------------------------------------------------------------------------
(* The link graph, as crawl builds it: every page a key, no page linking    *)
(* to itself, every link target a key.                                      *)

Keys(c) == DOMAIN c

NumPages(c) == Cardinality(DOMAIN c)

ValidCorpora(N) ==
    {c \in [1..N -> SUBSET (1..N)] : \A p \in 1..N : p \notin c[p]}

---------------------------------------------------------------------------
(* transition_model *)

\* len(corpus[page]) = 0: the division of line 63 raises ZeroDivisionError
TransitionRaises(c, pg) == Cardinality(c[pg]) = 0

TransitionModelDivN(c, pg, d) ==
    LET links == c[pg]
        randomPagePercent == Div(OneMinusDamping(d), NumPages(c))
        LinkedPagePercent == Div(TimesDamping(d, Scale), NumPages(c))
    IN  [q \in Keys(c) |->
            randomPagePercent + (IF q \in links THEN LinkedPagePercent ELSE 0)]

TransitionModel(c, pg, d) ==
    LET links == c[pg]
        randomPagePercent == Div(OneMinusDamping(d), NumPages(c))
        LinkedPagePercent == Div(TimesDamping(d, Scale), Cardinality(c[pg]))
    IN  [q \in Keys(c) |->
            randomPagePercent + (IF q \in links THEN LinkedPagePercent ELSE 0)]

CallTransitionModel ==
    /\ pc = "idle"
    /\ \E pg \in Keys(corpus) :
          /\ page' = pg
          /\ IF TransitionRaises(corpus, pg)
             THEN /\ pc' = "error"
                  /\ UNCHANGED distribution
             ELSE /\ pc' = "done"
                  /\ distribution' = TransitionModel(corpus, pg, damping)
    /\ op' = "transition"
    /\ UNCHANGED <<corpus, damping, n, i, chosen, countDict, probDict, flag,
                   idx, passStart, passes>>

---------------------------------------------------------------------------
(* sample_pagerank *)

\* while n > i
LoopGuardOffByOne(nn, ii) == nn >= ii

LoopGuard(nn, ii) == nn > ii

\* random.choices(keys, weights): a key whose weight is positive
Choices(model) == {q \in DOMAIN model : model[q] > 0}

SampleStart ==
    /\ pc = "idle"
    /\ \E nn \in 1..MaxSamples, first \in Keys(corpus) :
          /\ n' = nn
          /\ chosen' = first
          /\ countDict' = [q \in Keys(corpus) |-> IF q = first THEN 1 ELSE 0]
    /\ i' = 1
    /\ op' = "sample"
    /\ pc' = "running"
    /\ UNCHANGED <<corpus, damping, page, distribution, probDict, flag, idx,
                   passStart, passes>>

SampleStepDropsLink ==
    /\ pc = "running" /\ op = "sample"
    /\ LoopGuard(n, i)
    /\ i' = i + 1
    /\ IF TransitionRaises(corpus, chosen)
       THEN /\ pc' = "error"
            /\ UNCHANGED <<chosen, countDict, corpus>>
       ELSE /\ \E next \in Choices(TransitionModel(corpus, chosen, damping)) :
                  /\ chosen' = next
                  /\ countDict' = [countDict EXCEPT ![next] = @ + 1]
                  /\ corpus' = [corpus EXCEPT ![chosen] = @ \ {next}]
            /\ UNCHANGED pc
    /\ UNCHANGED <<damping, op, page, distribution, n, probDict, flag,
                   idx, passStart, passes>>

SampleStep ==
    /\ pc = "running" /\ op = "sample"
    /\ LoopGuard(n, i)
    /\ i' = i + 1
    /\ IF TransitionRaises(corpus, chosen)
       THEN /\ pc' = "error"
            /\ UNCHANGED <<chosen, countDict>>
       ELSE /\ \E next \in Choices(TransitionModel(corpus, chosen, damping)) :
                  /\ chosen' = next
                  /\ countDict' = [countDict EXCEPT ![next] = @ + 1]
            /\ UNCHANGED pc
    /\ UNCHANGED <<corpus, damping, op, page, distribution, n, probDict, flag,
                   idx, passStart, passes>>

SampleReturn ==
    /\ pc = "running" /\ op = "sample"
    /\ ~LoopGuard(n, i)
    /\ probDict' = [q \in DOMAIN countDict |-> Div(countDict[q] * Scale, n)]
    /\ pc' = "done"
    /\ UNCHANGED <<corpus, damping, op, page, distribution, n, i, chosen,
                   countDict, flag, idx, passStart, passes>>

---------------------------------------------------------------------------
(* iterate_pagerank *)

\* the pages whose link set holds p
LinkingTo(c, p) == {q \in Keys(c) : p \in c[q]}

\* damping_factor * probDict[link] / len(linked_pages), for each linking page
Shares(c, ranks, d) ==
    [q \in Keys(c) |->
        IF c[q] = {} THEN 0
        ELSE Div(TimesDamping(d, ranks[q]), Cardinality(c[q]))]

\* new_rank of page p, computed from `ranks`
NewRank(c, ranks, p, d) ==
    Div(OneMinusDamping(d), NumPages(c)) + SumOver(Shares(c, ranks, d), LinkingTo(c, p))

\* abs(new_rank - probDict[page]) > minChange
Changed(new, old) == Abs(new - old) > minChange

IterStart ==
    /\ pc = "idle"
    /\ op' = "iterate"
    /\ pc' = "running"
    /\ probDict' = [q \in Keys(corpus) |-> Div(Scale, NumPages(corpus))]
    /\ passStart' = probDict'
    /\ flag' = FALSE
    /\ idx' = 1
    /\ UNCHANGED <<corpus, damping, page, distribution, n, i, chosen,
                   countDict, passes>>

\* one iteration of `for page in corpus.keys()`
IterPage ==
    /\ pc = "running" /\ op = "iterate"
    /\ idx <= NumPages(corpus)
    /\ LET new_rank == NewRank(corpus, probDict, idx, damping)
       IN  /\ flag' = (flag \/ Changed(new_rank, probDict[idx]))
           /\ probDict' = [probDict EXCEPT ![idx] = new_rank]
    /\ idx' = idx + 1
    /\ UNCHANGED <<corpus, damping, op, pc, page, distribution, n, i, chosen,
                   countDict, passStart, passes>>

PassCount(k) == IF k < MaxPassCount THEN k + 1 ELSE k

IterPassEndKeepsFlag ==
    /\ pc = "running" /\ op = "iterate"
    /\ idx > NumPages(corpus)
    /\ passes' = PassCount(passes)
    /\ IF ~flag
       THEN /\ pc' = "done"
            /\ UNCHANGED <<flag, idx, passStart>>
       ELSE /\ flag' = flag
            /\ idx' = 1
            /\ passStart' = probDict
            /\ UNCHANGED pc
    /\ UNCHANGED <<corpus, damping, op, page, distribution, n, i, chosen,
                   countDict, probDict>>

\* the end of the for loop: `if not flag: break`, else the next pass begins
IterPassEnd ==
    /\ pc = "running" /\ op = "iterate"
    /\ idx > NumPages(corpus)
    /\ passes' = PassCount(passes)
    /\ IF ~flag
       THEN /\ pc' = "done"
            /\ UNCHANGED <<flag, idx, passStart>>
       ELSE /\ flag' = FALSE
            /\ idx' = 1
            /\ passStart' = probDict
            /\ UNCHANGED pc
    /\ UNCHANGED <<corpus, damping, op, page, distribution, n, i, chosen,
                   countDict, probDict>>

---------------------------------------------------------------------------

Init ==
    /\ \E N \in 1..MaxPages : corpus \in ValidCorpora(N)
    /\ damping \in Dampings
    /\ op = "none"
    /\ pc = "idle"
    /\ page = 0
    /\ distribution = EmptyDict
    /\ n = 0
    /\ i = 0
    /\ chosen = 0
    /\ countDict = EmptyDict
    /\ probDict = EmptyDict
    /\ flag = FALSE
    /\ idx = 0
    /\ passStart = EmptyDict
    /\ passes = 0

Next ==
    \/ CallTransitionModel
    \/ SampleStart
    \/ SampleStep
    \/ SampleReturn
    \/ IterStart
    \/ IterPage
    \/ IterPassEnd

Spec == Init /\ [][Next]_vars

\* iterate_pagerank alone, run to its end.
NextIterate ==
    \/ IterStart
    \/ IterPage
    \/ IterPassEnd

\* The interpreter runs the one thread of the program until it returns or raises.
IterateSpec == Init /\ [][NextIterate]_vars /\ WF_vars(NextIterate)

---------------------------------------------------------------------------
(* Properties *)

\* Sums are compared to 1 within this tolerance (0.001).
SumTolerance == Scale \div 1000

\* C1: transition_model on a page with no outbound links returns the uniform
\* distribution: 1/N for each of the N pages, never an error.
C1_DeadEndUniform ==
    (op = "transition" /\ corpus[page] = {}) =>
        /\ pc = "done"
        /\ DOMAIN distribution = Keys(corpus)
        /\ \A q \in Keys(corpus) : distribution[q] * NumPages(corpus) = Scale

\* C2: for every current page, with links or without, transition_model returns
\* one entry per page of the corpus and the entries sum to 1.
C2_DistributionSumsToOne ==
    (op = "transition") =>
        /\ pc = "done"
        /\ DOMAIN distribution = Keys(corpus)
        /\ Total(distribution) = Scale

\* C3: for a current page with a non-empty link set L, transition_model gives
\* (1-d)/N + d/|L| to each page of L and (1-d)/N to every other page, the
\* current page included.  (Both sides are multiplied by 100 * N * |L|.)
C3_LinkedAndUnlinked ==
    (op = "transition" /\ corpus[page] # {}) =>
        /\ pc = "done"
        /\ DOMAIN distribution = Keys(corpus)
        /\ LET N == NumPages(corpus)
               L == Cardinality(corpus[page])
           IN  \A q \in Keys(corpus) :
                  IF q \in corpus[page]
                  THEN distribution[q] * 100 * N * L
                          = Scale * ((100 - damping) * L + damping * N)
                  ELSE distribution[q] * 100 * N = Scale * (100 - damping)

\* a call on a page that links to one other page and not to a third
C3_Witness ==
    /\ op = "transition" /\ pc = "done"
    /\ \E q \in corpus[page] :
          \E r \in Keys(corpus) \ (corpus[page] \cup {page}) : q # r

\* C4: sample_pagerank makes exactly n draws, each incrementing one counter:
\* the counters sum to the number of draws made so far, the call ends by
\* returning, with n draws made, and the estimates sum to 1.
C4_SampleDrawsExactlyN ==
    (op = "sample") =>
        /\ Total(countDict) = i
        /\ pc # "running" =>
              /\ pc = "done"
              /\ i = n
              /\ Total(probDict) = Scale

\* C5: at the end of every pass of iterate_pagerank, and so in its result, the
\* ranks sum to 1.
C5_PassSumsToOne ==
    (op = "iterate" /\ idx > NumPages(corpus)) =>
        Abs(Total(probDict) - Scale) <= SumTolerance

\* C6: iterate_pagerank eventually stops: a pass in which no rank changes by
\* more than minChange occurs and the ranks are returned.
C6_IterateTerminates == (op = "iterate") ~> (pc = "done")

\* a run that returned after more than one pass
C6_Witness == op = "iterate" /\ pc = "done" /\ passes >= 2

\* C7: with n = 1, sample_pagerank never runs its loop body (no transition
\* model is computed) and returns 1 for one page and 0 for every other page.
C7_SingleSample ==
    (op = "sample" /\ n = 1 /\ pc # "running") =>
        /\ pc = "done"
        /\ i = 1
        /\ \E p \in Keys(corpus) :
              /\ probDict[p] = Scale
              /\ \A q \in Keys(corpus) \ {p} : probDict[q] = 0

\* n = 1 on a corpus of several pages, the first page a dead end
C7_Witness ==
    /\ op = "sample" /\ n = 1 /\ pc = "done"
    /\ NumPages(corpus) >= 2
    /\ corpus[chosen] = {}

\* C8: within a pass, every new rank is computed from the ranks held when the
\* pass began: each page already processed in the current pass holds the rank
\* that the ranks at the start of the pass give it.
C8_SynchronousUpdate ==
    (op = "iterate") =>
        \A q \in Keys(corpus) :
            q < idx => probDict[q] = NewRank(corpus, passStart, q, damping)

\* the contribution of page q to the new rank of page p, a page without links
\* counted as linking to every page
ShareWithDeadEnds(c, ranks, d) ==
    [q \in Keys(c) |->
        IF c[q] = {} THEN Div(TimesDamping(d, ranks[q]), NumPages(c))
        ELSE Div(TimesDamping(d, ranks[q]), Cardinality(c[q]))]

\* C9: the new rank given to a page p is (1-d)/N plus d * rank(q) / |L_q| for
\* every q linking to p plus d * rank(q) / N for every q without links, the
\* ranks being those the step reads.
C9_DeadEndShare ==
    [][(op = "iterate" /\ pc = "running" /\ idx <= NumPages(corpus)) =>
          probDict'[idx] =
              Div(OneMinusDamping(damping), NumPages(corpus))
              + SumOver(ShareWithDeadEnds(corpus, probDict, damping),
                        {q \in Keys(corpus) : corpus[q] = {} \/ idx \in corpus[q]})
      ]_vars

\* C10: no step of transition_model, sample_pagerank or iterate_pagerank
\* changes the link graph.
C10_CorpusUnchanged == [][corpus' = corpus]_vars

\* a random walk of several steps that returned
C10_Witness == op = "sample" /\ pc = "done" /\ n >= 2

===========================================================================
